---------------------------- MODULE Spec2Model ----------------------------
(***************************************************************************)
(* The pure-Python fuzzy matcher of vim-clap: pythonx/clap/fzy_impl.py     *)
(* (the fzy scorer) and pythonx/clap/fzy.py (the ranker around it).        *)
(*                                                                         *)
(* Strings are sequences of one-character strings.  Python indexes from 0  *)
(* and TLA+ sequences from 1: every offset, position and loop index below  *)
(* keeps its Python (0-based) value, and s[p + 1] reads the character at   *)
(* Python index p.                                                         *)
(*                                                                         *)
(* Scores are Python floats that are sums of the constants of              *)
(* fzy_impl.py:11-16,29-32, all multiples of 0.001; the model counts them  *)
(* in thousandths (0.9 is 900, -0.005 is -5) so that sums and comparisons  *)
(* are exact.  float("-inf") and float("inf") are the two sentinels        *)
(* SCORE_MIN and SCORE_MAX; Add keeps -inf absorbing as float addition     *)
(* does.                                                                   *)
(***************************************************************************)
EXTENDS Integers, Sequences, FiniteSets, TLC

VARIABLES
    query,        \* a:query
    candidates,   \* a:candidates
    enable_icon,  \* a:context.enable_icon after str2bool
    pc,           \* position inside fuzzy_match_py
    cur,          \* apply_score: index of the next candidate of the for loop
    scored,       \* apply_score: the list of {'score','indices','text'}
    ranked,       \* fuzzy_match_py: sorted(scored, ...)
    indices,      \* fuzzy_match_py: first component of the result
    filtered,     \* fuzzy_match_py: second component of the result
    ret,          \* apply_score: what the last call of the scorer returned
    D,            \* score(): matrix D of the last call that filled it
    M             \* score(): matrix M of the last call that filled it

vars == <<query, candidates, enable_icon, pc, cur, scored, ranked, indices, filtered, ret, D, M>>

---------------------------------------------------------------------------
(* Bounds of the model *)

\* a call with one candidate (SpecOne)
MaxNiddleLen == 3      \* longest query
MaxHaystackLen == 4    \* longest candidate
\* a call with a list of candidates (Spec)
MaxRankNiddleLen == 2  \* longest query
MaxCandidates == 3     \* longest candidate list

\* SpecOne ranks every string over Chars against every query over
\* QueryChars: a lower-case letter, another letter in upper case and a word
\* separator, each letter of the query in the case the candidates lack, so
\* that a letter matches only through lower().
Chars == {"a", "B", "_"}
QueryChars == {"A", "b", "_"}

\* Spec ranks lists over Corpus against the queries over RankQueryChars.
\* Under the queries "a" and "ab" the corpus holds texts of equal score,
\* texts of different scores, texts equal to the query and texts that do
\* not match, both with the two leading characters cut and without.
Corpus == { <<"a","b">>, <<"a","B">>, <<"b","a">>,
            <<"_","_","a","b">>, <<"_","_","A","b">>, <<"_","_","b","a">> }
RankQueryChars == {"a", "b"}

---------------------------------------------------------------------------
(* Constants of fzy_impl.py, in thousandths *)

SCORE_MIN == -1000000000
SCORE_MAX == 1000000000
SCORE_GAP_LEADING == -5
SCORE_GAP_TRAILING == -5
SCORE_GAP_INNER == -10
SCORE_MATCH_CONSECUTIVE == 1000
SCORE_MATCH_SLASH == 900
SCORE_MATCH_WORD == 800
SCORE_MATCH_CAPITAL == 700
SCORE_MATCH_DOT == 600

\* the width apply_score cuts off the front of a candidate (c[2:])
ICON_SKIP == 2
\* the amount apply_score adds to every index (x + 4)
ICON_SHIFT == 4

Max(a, b) == IF a >= b THEN a ELSE b

\* float addition with -inf absorbing
Add(a, b) == IF a = SCORE_MIN \/ b = SCORE_MIN THEN SCORE_MIN ELSE a + b

---------------------------------------------------------------------------
(* Character classes: str.lower() and the ranges of char_range_with *)

LowerLetters == <<"a","b","c","d","e","f","g","h","i","j","k","l","m",
                  "n","o","p","q","r","s","t","u","v","w","x","y","z">>
UpperLetters == <<"A","B","C","D","E","F","G","H","I","J","K","L","M",
                  "N","O","P","Q","R","S","T","U","V","W","X","Y","Z">>
Digits == {"0","1","2","3","4","5","6","7","8","9"}

IsLower(c) == \E x \in 1..26 : LowerLetters[x] = c
IsUpper(c) == \E x \in 1..26 : UpperLetters[x] = c
IsDigit(c) == c \in Digits

\* one character of str.lower()
LowerChar(c) ==
    IF IsUpper(c) THEN LowerLetters[CHOOSE x \in 1..26 : UpperLetters[x] = c]
    ELSE c

\* str.lower()
lower(s) == [x \in 1..Len(s) |-> LowerChar(s[x])]

\* BONUS_MAP.get(c, 0)
BONUS_MAP(c) ==
    CASE c = "/" -> SCORE_MATCH_SLASH
      [] c = "-" -> SCORE_MATCH_WORD
      [] c = "_" -> SCORE_MATCH_WORD
      [] c = " " -> SCORE_MATCH_WORD
      [] c = "." -> SCORE_MATCH_DOT
      [] OTHER -> 0

\* BONUS_INDEX.get(c, 0)
BONUS_INDEX(c) ==
    IF IsDigit(c) \/ IsLower(c) THEN 1
    ELSE IF IsUpper(c) THEN 2
    ELSE 0

\* BONUS_STATES[idx].get(c_prev, 0)
BONUS_STATES(idx, c_prev) ==
    CASE idx = 0 -> 0
      [] idx = 1 -> BONUS_MAP(c_prev)
      [] idx = 2 -> IF IsLower(c_prev) THEN SCORE_MATCH_CAPITAL ELSE BONUS_MAP(c_prev)

\* bonus() with c_prev starting empty instead of at "/"
bonusNoVirtualSlash(haystack) ==
    [x \in 1..Len(haystack) |->
        IF x = 1 THEN 0
        ELSE BONUS_STATES(BONUS_INDEX(haystack[x]), haystack[x - 1])]

\* bonus(haystack): the bonus of each position from the character before it,
\* the character before position 0 being "/"
bonus(haystack) ==
    [x \in 1..Len(haystack) |->
        BONUS_STATES(BONUS_INDEX(haystack[x]),
                     IF x = 1 THEN "/" ELSE haystack[x - 1])]

---------------------------------------------------------------------------
(* subsequence(niddle, haystack) *)

\* str.find(char, offset): the least index >= offset holding char, else -1
find(hs, char, offset) ==
    IF \E p \in offset..(Len(hs) - 1) : hs[p + 1] = char
    THEN CHOOSE p \in offset..(Len(hs) - 1) :
            /\ hs[p + 1] = char
            /\ \A r \in offset..(p - 1) : hs[r + 1] # char
    ELSE -1

\* the for loop of subsequence from the x-th character of niddle on
RECURSIVE SubsequenceLoop(_, _, _, _)
SubsequenceLoop(nd, hs, x, offset) ==
    IF x > Len(nd) THEN TRUE
    ELSE LET next == find(hs, nd[x], offset) + 1
         IN IF next <= 0 THEN FALSE
            ELSE SubsequenceLoop(nd, hs, x + 1, next)

\* subsequence() looking for every character from the start of haystack
subsequenceAnyOrder(niddle, haystack) ==
    \A x \in 1..Len(niddle) : find(lower(haystack), lower(niddle)[x], 0) >= 0

\* subsequence() turning an empty niddle down
subsequenceNonEmpty(niddle, haystack) ==
    /\ niddle # <<>>
    /\ SubsequenceLoop(lower(niddle), lower(haystack), 1, 0)

\* `if not niddle: True` is an expression statement: it returns nothing
subsequence(niddle, haystack) ==
    SubsequenceLoop(lower(niddle), lower(haystack), 1, 0)

---------------------------------------------------------------------------
(* score(niddle, haystack) *)

\* the loop body with the gap of the inner rows in the last row too
CellInnerGap(nd, hs, bs, Dm, Mm, i, j, prev_score) ==
    LET gap_score == SCORE_GAP_INNER
    IN IF nd[i + 1] = hs[j + 1]
       THEN LET score_ij ==
                    IF i = 0 THEN j * SCORE_GAP_LEADING + bs[j + 1]
                    ELSE IF j # 0
                         THEN Max(Add(Mm[i][j], bs[j + 1]),
                                  Add(Dm[i][j], SCORE_MATCH_CONSECUTIVE))
                         ELSE SCORE_MIN
            IN [D |-> score_ij, M |-> Max(score_ij, Add(prev_score, gap_score))]
       ELSE [D |-> SCORE_MIN, M |-> Add(prev_score, gap_score)]

\* the loop body losing the running best where the characters differ
CellNoCarry(nd, hs, bs, Dm, Mm, i, j, prev_score) ==
    LET gap_score == IF i = Len(nd) - 1 THEN SCORE_GAP_TRAILING ELSE SCORE_GAP_INNER
    IN IF nd[i + 1] = hs[j + 1]
       THEN LET score_ij ==
                    IF i = 0 THEN j * SCORE_GAP_LEADING + bs[j + 1]
                    ELSE IF j # 0
                         THEN Max(Add(Mm[i][j], bs[j + 1]),
                                  Add(Dm[i][j], SCORE_MATCH_CONSECUTIVE))
                         ELSE SCORE_MIN
            IN [D |-> score_ij, M |-> Max(score_ij, Add(prev_score, gap_score))]
       ELSE [D |-> SCORE_MIN, M |-> SCORE_MIN]

\* the body of "for j in range(m)" for row i and column j: the values stored
\* in D[i][j] and M[i][j].  Dm and Mm hold the rows filled so far.
Cell(nd, hs, bs, Dm, Mm, i, j, prev_score) ==
    LET gap_score == IF i = Len(nd) - 1 THEN SCORE_GAP_TRAILING ELSE SCORE_GAP_INNER
    IN IF nd[i + 1] = hs[j + 1]
       THEN LET score_ij ==
                    IF i = 0 THEN j * SCORE_GAP_LEADING + bs[j + 1]
                    ELSE IF j # 0
                         THEN Max(Add(Mm[i][j], bs[j + 1]),
                                  Add(Dm[i][j], SCORE_MATCH_CONSECUTIVE))
                         ELSE SCORE_MIN
            IN [D |-> score_ij, M |-> Max(score_ij, Add(prev_score, gap_score))]
       ELSE [D |-> SCORE_MIN, M |-> Add(prev_score, gap_score)]

\* "for j in range(m)" from column j on; row holds D[i][:j] and M[i][:j]
RECURSIVE InnerLoop(_, _, _, _, _, _, _, _)
InnerLoop(nd, hs, bs, Dm, Mm, i, j, row) ==
    IF j >= Len(hs) THEN row
    ELSE LET prev_score == IF j = 0 THEN SCORE_MIN ELSE row.M[j]
             c == Cell(nd, hs, bs, Dm, Mm, i, j, prev_score)
         IN InnerLoop(nd, hs, bs, Dm, Mm, i, j + 1,
                      [D |-> Append(row.D, c.D), M |-> Append(row.M, c.M)])

\* "for i in range(n)" from row i on; mats holds D[:i] and M[:i]
RECURSIVE OuterLoop(_, _, _, _, _)
OuterLoop(nd, hs, bs, i, mats) ==
    IF i >= Len(nd) THEN mats
    ELSE LET row == InnerLoop(nd, hs, bs, mats.D, mats.M, i, 0,
                              [D |-> <<>>, M |-> <<>>])
         IN OuterLoop(nd, hs, bs, i + 1,
                      [D |-> Append(mats.D, row.D), M |-> Append(mats.M, row.M)])

\* the matrices D and M that score() fills
Matrices(niddle, haystack) ==
    OuterLoop(lower(niddle), lower(haystack), bonus(haystack), 0,
              [D |-> <<>>, M |-> <<>>])

\* the two nested while loops of the backtrace, at row i and column j
RECURSIVE Backtrace(_, _, _, _, _, _)
Backtrace(Dm, Mm, i, j, match_required, positions) ==
    IF i < 0 THEN positions
    ELSE IF j < 0 THEN Backtrace(Dm, Mm, i - 1, j, match_required, positions)
    ELSE IF /\ (match_required \/ Dm[i + 1][j + 1] = Mm[i + 1][j + 1])
            /\ Dm[i + 1][j + 1] # SCORE_MIN
         THEN Backtrace(Dm, Mm, i - 1, j - 1,
                        (/\ i > 0
                         /\ j > 0
                         /\ Mm[i + 1][j + 1] = Add(Dm[i][j], SCORE_MATCH_CONSECUTIVE)),
                        [positions EXCEPT ![i + 1] = j])
         ELSE Backtrace(Dm, Mm, i, j - 1, match_required, positions)

\* score(niddle, haystack): the pair (score, positions); filled says whether
\* the call got past the short cut and built D and M
score(niddle, haystack) ==
    LET n == Len(niddle)
        m == Len(haystack)
    IN IF n = 0 \/ n = m
       THEN [score |-> SCORE_MAX, positions |-> [x \in 1..n |-> x - 1],
             filled |-> FALSE, D |-> <<>>, M |-> <<>>]
       ELSE LET mats == Matrices(niddle, haystack)
            IN [score |-> mats.M[n][m],
                positions |-> Backtrace(mats.D, mats.M, n - 1, m - 1, FALSE,
                                        [x \in 1..n |-> 0]),
                filled |-> TRUE, D |-> mats.D, M |-> mats.M]

\* Python's None, as a sequence that no list of positions equals
None == <<-1>>

\* fzy_scorer(niddle, haystack)
fzy_scorer(niddle, haystack) ==
    IF subsequence(niddle, haystack)
    THEN score(niddle, haystack)
    ELSE [score |-> SCORE_MIN, positions |-> None,
          filled |-> FALSE, D |-> <<>>, M |-> <<>>]

---------------------------------------------------------------------------
(* fzy.py: apply_score and fuzzy_match_py *)

\* c[2:]
StripIcon(c) == SubSeq(c, ICON_SKIP + 1, Len(c))

\* the text apply_score hands to the scorer
Scored(c) == IF enable_icon THEN StripIcon(c) ELSE c

\* [x + 4 for x in indices]
ShiftIndices(ind) == [x \in 1..Len(ind) |-> ind[x] + ICON_SHIFT]

\* the body of "for c in candidates" of apply_score: the list scored after it
ApplyScoreStep(acc, c) ==
    LET r == fzy_scorer(query, Scored(c))
    IN IF r.score # SCORE_MIN
       THEN Append(acc, [score |-> r.score,
                         indices |-> IF enable_icon THEN ShiftIndices(r.positions)
                                     ELSE r.positions,
                         text |-> c])
       ELSE acc

\* InsertRanked putting r before the elements of its own score
RECURSIVE InsertRankedUnstable(_, _)
InsertRankedUnstable(r, s) ==
    IF s = <<>> THEN <<r>>
    ELSE IF Head(s).score > r.score
         THEN <<Head(s)>> \o InsertRankedUnstable(r, Tail(s))
         ELSE <<r>> \o s

\* sorted() without reverse=True
RECURSIVE InsertAscending(_, _)
InsertAscending(r, s) ==
    IF s = <<>> THEN <<r>>
    ELSE IF Head(s).score <= r.score THEN <<Head(s)>> \o InsertAscending(r, Tail(s))
    ELSE <<r>> \o s

RECURSIVE sortedAscending(_)
sortedAscending(s) ==
    IF s = <<>> THEN <<>>
    ELSE InsertAscending(s[Len(s)], sortedAscending(SubSeq(s, 1, Len(s) - 1)))

\* sorted(scored, key=lambda x: x['score'], reverse=True): Python's sort is
\* stable, and stays so with reverse=True.  InsertRanked puts r behind every
\* element whose score is not lower.
RECURSIVE InsertRanked(_, _)
InsertRanked(r, s) ==
    IF s = <<>> THEN <<r>>
    ELSE IF Head(s).score >= r.score THEN <<Head(s)>> \o InsertRanked(r, Tail(s))
    ELSE <<r>> \o s

RECURSIVE sorted(_)
sorted(s) ==
    IF s = <<>> THEN <<>>
    ELSE InsertRanked(s[Len(s)], sorted(SubSeq(s, 1, Len(s) - 1)))

---------------------------------------------------------------------------
(* The inputs *)

RECURSIVE Strings(_, _)
\* the strings over the characters cs of length at most len
Strings(cs, len) ==
    IF len = 0 THEN {<<>>}
    ELSE LET shorter == Strings(cs, len - 1)
         IN shorter \cup
            {Append(s, c) : s \in {t \in shorter : Len(t) = len - 1}, c \in cs}

RECURSIVE Lists(_, _)
\* the lists of at most len elements of S
Lists(S, len) ==
    IF len = 0 THEN {<<>>}
    ELSE LET shorter == Lists(S, len - 1)
         IN shorter \cup
            {Append(l, e) : l \in {t \in shorter : Len(t) = len - 1}, e \in S}

---------------------------------------------------------------------------
(* The state machine: one call of fuzzy_match_py(query, candidates,        *)
(* enable_icon) with a query that holds no space, so that the scorer is    *)
(* fzy_scorer (fzy.py:36-39).                                              *)

InitLocals ==
    /\ pc = "apply_score"
    /\ cur = 0
    /\ scored = <<>>
    /\ ranked = <<>>
    /\ indices = <<>>
    /\ filtered = <<>>
    /\ ret = [score |-> SCORE_MIN, positions |-> None]
    /\ D = <<>>
    /\ M = <<>>

\* a call with a list of candidates
Init ==
    /\ query \in Strings(RankQueryChars, MaxRankNiddleLen)
    /\ candidates \in Lists(Corpus, MaxCandidates)
    /\ enable_icon \in BOOLEAN
    /\ InitLocals

\* a call with one candidate
InitOne ==
    /\ query \in Strings(QueryChars, MaxNiddleLen)
    /\ candidates \in {<<c>> : c \in Strings(Chars, MaxHaystackLen)}
    /\ enable_icon \in BOOLEAN
    /\ InitLocals

\* one iteration of "for c in candidates" in apply_score
ApplyScore ==
    /\ pc = "apply_score"
    /\ cur < Len(candidates)
    /\ LET c == candidates[cur + 1]
           r == fzy_scorer(query, Scored(c))
       IN /\ scored' = ApplyScoreStep(scored, c)
          /\ ret' = [score |-> r.score, positions |-> r.positions]
          /\ D' = IF r.filled THEN r.D ELSE D
          /\ M' = IF r.filled THEN r.M ELSE M
    /\ cur' = cur + 1
    /\ UNCHANGED <<query, candidates, enable_icon, pc, ranked, indices, filtered>>

\* apply_score returns and fuzzy_match_py sorts what it returned
Rank ==
    /\ pc = "apply_score"
    /\ cur = Len(candidates)
    /\ ranked' = sorted(scored)
    /\ pc' = "collect"
    /\ UNCHANGED <<query, candidates, enable_icon, cur, scored, indices, filtered, ret, D, M>>

\* "for r in ranked" and the return of (indices, filtered)
Collect ==
    /\ pc = "collect"
    /\ filtered' = [x \in 1..Len(ranked) |-> ranked[x].text]
    /\ indices' = [x \in 1..Len(ranked) |-> ranked[x].indices]
    /\ pc' = "returned"
    /\ UNCHANGED <<query, candidates, enable_icon, cur, scored, ranked, ret, D, M>>

Next == ApplyScore \/ Rank \/ Collect

Spec == Init /\ [][Next]_vars

SpecOne == InitOne /\ [][Next]_vars

---------------------------------------------------------------------------
(* What the properties speak of, stated without the operators above *)

\* the candidate the for loop of apply_score handled last, as the scorer saw it
Haystack == Scored(candidates[cur])

\* the scorer has just returned ret for Haystack (D, M and ret stay as they
\* are once apply_score is left)
JustScored == pc = "apply_score" /\ cur >= 1

\* the ways to lay the first k characters of q onto c: all the strictly
\* increasing lists of k positions of c that hold those characters, letter
\* case aside; each is a way to lay k - 1 characters and a later position
RECURSIVE EmbeddingsOf(_, _, _)
EmbeddingsOf(q, c, k) ==
    IF k = 0 THEN {<<>>}
    ELSE UNION {{Append(p, j) :
                    j \in {jj \in 0..(Len(c) - 1) :
                            /\ k > 1 => jj > p[k - 1]
                            /\ LowerChar(c[jj + 1]) = LowerChar(q[k])}} :
                p \in EmbeddingsOf(q, c, k - 1)}

\* the ways to lay q onto c
Embeddings(q, c) == EmbeddingsOf(q, c, Len(q))

\* q is a case-insensitive ordered subsequence of c
IsSubsequence(q, c) == Embeddings(q, c) # {}

\* score() is called on the last candidate and gets past its short cut
Aligned ==
    /\ JustScored
    /\ 0 < Len(query)
    /\ Len(query) < Len(Haystack)
    /\ IsSubsequence(query, Haystack)

\* the score of the first k positions of p: the leading gap and the bonus of
\* p[1], then for each further position either the consecutive bonus or the
\* inner gap and the bonus of the position
RECURSIVE PrefixScore(_, _, _)
PrefixScore(bs, p, k) ==
    IF k = 1 THEN p[1] * SCORE_GAP_LEADING + bs[p[1] + 1]
    ELSE PrefixScore(bs, p, k - 1)
         + (IF p[k] = p[k - 1] + 1 THEN SCORE_MATCH_CONSECUTIVE
            ELSE (p[k] - p[k - 1] - 1) * SCORE_GAP_INNER + bs[p[k] + 1])

\* the score of the alignment p of the whole query in a candidate of length m
AlignmentScore(bs, p, m) ==
    PrefixScore(bs, p, Len(p)) + (m - 1 - p[Len(p)]) * SCORE_GAP_TRAILING

\* the greatest element of a set of scores, -inf for the empty set
Best(S) == IF S = {} THEN SCORE_MIN ELSE CHOOSE x \in S : \A y \in S : y <= x

\* a list of offsets is strictly increasing
Increasing(ind) == \A x \in 1..(Len(ind) - 1) : ind[x] < ind[x + 1]

---------------------------------------------------------------------------
(* C1 *)

\* C1: with a non-empty query, apply_score keeps and fuzzy_match_py returns
\* only candidates that hold the query as a case-insensitive ordered
\* subsequence (of the text behind the icon when enable_icon is set); a
\* candidate shorter than the query is never returned.
C1_OnlySubsequences ==
    query # <<>> =>
        /\ \A x \in 1..Len(scored) : IsSubsequence(query, Scored(scored[x].text))
        /\ \A x \in 1..Len(filtered) :
              /\ IsSubsequence(query, Scored(filtered[x]))
              /\ Len(Scored(filtered[x])) >= Len(query)

\* a candidate that holds the characters of the query, is as long as the
\* query, and is left out because they are not in the order of the query
C1_Witness ==
    /\ pc = "returned"
    /\ Len(query) >= 2
    /\ Len(candidates) = 1
    /\ Len(Scored(candidates[1])) = Len(query)
    /\ \A x \in 1..Len(query) : \E p \in 1..Len(candidates[1]) :
          LowerChar(candidates[1][p]) = LowerChar(query[x])
    /\ ~enable_icon
    /\ filtered = <<>>

---------------------------------------------------------------------------
(* C10 *)

\* C10: when the non-empty query is a case-insensitive ordered subsequence
\* of the candidate, fzy_scorer returns a score other than -inf and a list
\* of positions, the last cell of M is finite, apply_score keeps the
\* candidate, and fuzzy_match_py returns exactly the candidates that hold
\* the query as a subsequence.
C10_Complete ==
    query # <<>> =>
        /\ (JustScored /\ IsSubsequence(query, Haystack)) =>
              /\ ret.score # SCORE_MIN
              /\ ret.positions # None
              /\ scored # <<>>
              /\ scored[Len(scored)].text = candidates[cur]
        /\ Aligned => M[Len(query)][Len(Haystack)] # SCORE_MIN
        /\ pc = "returned" =>
              {filtered[x] : x \in 1..Len(filtered)}
                  = {c \in {candidates[x] : x \in 1..Len(candidates)} :
                        IsSubsequence(query, Scored(c))}

\* a returned candidate that goes on after the last character of the query
C10_Witness ==
    /\ pc = "returned"
    /\ 0 < Len(query)
    /\ Len(query) < Len(Haystack)
    /\ IsSubsequence(query, Haystack)
    /\ filtered = candidates
    /\ LowerChar(Haystack[Len(Haystack)]) # LowerChar(query[Len(query)])
    /\ M[Len(query)][Len(Haystack)] # SCORE_MIN

---------------------------------------------------------------------------
(* C8 *)

\* C8: for 0 < len(Q) < len(C) and Q a subsequence of C, the score returned
\* is the greatest alignment score over all alignments of Q in C; D[i][j] is
\* the best score of the alignments of Q[0..i] that put Q[i] at j, and
\* M[i][j] the best of those that put Q[i] at or before j, each with the gap
\* of row i counted up to j.
C8_Optimal ==
    Aligned =>
        LET h == Haystack
            n == Len(query)
            m == Len(h)
            bs == bonus(h)
            Gap(i) == IF i = n - 1 THEN SCORE_GAP_TRAILING ELSE SCORE_GAP_INNER
        IN /\ ret.score = M[n][m]
           /\ ret.score = Best({AlignmentScore(bs, p, m) : p \in Embeddings(query, h)})
           /\ \A i \in 0..(n - 1) :
                 LET upto == EmbeddingsOf(query, h, i + 1)
                 IN \A j \in 0..(m - 1) :
                       /\ D[i + 1][j + 1]
                             = Best({PrefixScore(bs, p, i + 1) :
                                       p \in {e \in upto : e[i + 1] = j}})
                       /\ M[i + 1][j + 1]
                             = Best({PrefixScore(bs, p, i + 1) + (j - p[i + 1]) * Gap(i) :
                                       p \in {e \in upto : e[i + 1] <= j}})

\* a query of three characters with more than one alignment, the best of
\* them leaving a gap
C8_Witness ==
    /\ Aligned
    /\ Len(query) = 3
    /\ Cardinality(Embeddings(query, Haystack)) >= 2
    /\ ~ \A x \in 1..2 : ret.positions[x + 1] = ret.positions[x] + 1
    /\ AlignmentScore(bonus(Haystack), ret.positions, Len(Haystack)) = ret.score

---------------------------------------------------------------------------
(* C7 *)

\* C7: for 0 < len(Q) < len(C) and Q a subsequence of C, the positions that
\* score() returns hold the characters of Q and describe an alignment whose
\* score is the score returned.
C7_BacktraceConsistent ==
    Aligned =>
        /\ Len(ret.positions) = Len(query)
        /\ \A x \in 1..Len(query) :
              LowerChar(Haystack[ret.positions[x] + 1]) = LowerChar(query[x])
        /\ AlignmentScore(bonus(Haystack), ret.positions, Len(Haystack)) = ret.score

---------------------------------------------------------------------------
(* C9 *)

\* the first character of the candidate is an ASCII letter or digit
StartsAlnum(h) == IsLower(h[1]) \/ IsUpper(h[1]) \/ IsDigit(h[1])

\* the first character of the query matches the first of the candidate in a
\* call of score() that fills D
FirstCellMatches ==
    /\ JustScored
    /\ query # <<>>
    /\ Haystack # <<>>
    /\ Len(query) # Len(Haystack)
    /\ IsSubsequence(query, Haystack)
    /\ LowerChar(query[1]) = LowerChar(Haystack[1])

\* C9 as stated: the bonus of position 0 is the path-separator bonus for
\* every non-empty candidate, and D[0][0] is that bonus whenever the first
\* characters match, whatever the character.
C9_StartBonusAlways ==
    (JustScored /\ Haystack # <<>>) =>
        /\ bonus(Haystack)[1] = SCORE_MATCH_SLASH
        /\ FirstCellMatches => D[1][1] = SCORE_MATCH_SLASH

\* C9 amended: the bonus of position 0 is the path-separator bonus when the
\* candidate starts with an ASCII letter or digit and 0 when it starts with
\* any other character, and D[0][0] is that bonus whenever the first
\* characters match.
C9_StartBonusAlnum ==
    (JustScored /\ Haystack # <<>>) =>
        LET b == IF StartsAlnum(Haystack) THEN SCORE_MATCH_SLASH ELSE 0
        IN /\ bonus(Haystack)[1] = b
           /\ FirstCellMatches => D[1][1] = b

\* a candidate that starts with a letter, matched at its first character
C9_Witness ==
    /\ FirstCellMatches
    /\ StartsAlnum(Haystack)
    /\ D[1][1] = SCORE_MATCH_SLASH

---------------------------------------------------------------------------
(* C6 *)

\* the text equals the non-empty query, letter case aside
Perfect(h) == query # <<>> /\ lower(h) = lower(query)

\* C6: a candidate equal to the non-empty query case-insensitively, which
\* is one of the length of the query that holds it as a subsequence, gets
\* SCORE_MAX and the offsets 0 .. len-1, and is never returned after a
\* candidate longer than the query.
C6_PerfectMatch ==
    /\ JustScored =>
          /\ Perfect(Haystack) <=>
                (/\ query # <<>>
                 /\ Len(Haystack) = Len(query)
                 /\ IsSubsequence(query, Haystack))
          /\ Perfect(Haystack) =>
                /\ ret.score = SCORE_MAX
                /\ ret.positions = [x \in 1..Len(Haystack) |-> x - 1]
    /\ \A x \in 1..Len(filtered), y \in 1..Len(filtered) :
          (Perfect(Scored(filtered[y])) /\ Len(Scored(filtered[x])) > Len(query))
              => y < x

\* a candidate equal to the query that follows a longer one in the input and
\* precedes it in the result
C6_Witness ==
    /\ pc = "returned"
    /\ Len(filtered) >= 2
    /\ Len(candidates) >= 2
    /\ Len(Scored(candidates[1])) > Len(query)
    /\ Perfect(Scored(candidates[2]))
    /\ filtered[1] = candidates[2]
    /\ \E x \in 2..Len(filtered) : filtered[x] = candidates[1]

---------------------------------------------------------------------------
(* C4 *)

\* what fzy_scorer gives for the candidate c
ScoreOf(c) == fzy_scorer(query, Scored(c)).score

\* the offsets apply_score records for the candidate c
IndicesOf(c) ==
    LET positions == fzy_scorer(query, Scored(c)).positions
    IN IF enable_icon THEN [y \in 1..Len(positions) |-> positions[y] + ICON_SHIFT]
       ELSE positions

\* the elements of the list of records s that have the score v
WithScore(s, v) == SelectSeq(s, LAMBDA r : r.score = v)

\* C4: apply_score returns the matching candidates in input order with their
\* scores and offsets; ranked is that list in descending order of score, the
\* elements of one score in the order they have in it; the texts and offset
\* lists returned are those of ranked, position by position.
C4_StableSort ==
    /\ (pc = "apply_score" /\ cur = Len(candidates)) =>
          /\ [x \in 1..Len(scored) |-> scored[x].text]
                = SelectSeq(candidates, LAMBDA c : ScoreOf(c) # SCORE_MIN)
          /\ \A x \in 1..Len(scored) :
                /\ scored[x].score = ScoreOf(scored[x].text)
                /\ scored[x].indices = IndicesOf(scored[x].text)
    /\ pc # "apply_score" =>
          /\ \A x \in 1..Len(ranked), y \in 1..Len(ranked) :
                x < y => ranked[x].score >= ranked[y].score
          /\ Len(ranked) = Len(scored)
          /\ \A x \in 1..Len(scored) :
                WithScore(ranked, scored[x].score) = WithScore(scored, scored[x].score)
    /\ pc = "returned" =>
          /\ Len(filtered) = Len(ranked)
          /\ Len(indices) = Len(filtered)
          /\ \A x \in 1..Len(ranked) :
                /\ filtered[x] = ranked[x].text
                /\ indices[x] = ranked[x].indices

\* three different texts returned, two of one finite score in their input
\* order after one of a higher score that the input had between them
C4_Witness ==
    /\ pc = "returned"
    /\ Len(candidates) = 3
    /\ Len(filtered) = 3
    /\ ranked[1].score > ranked[2].score
    /\ ranked[2].score = ranked[3].score
    /\ ranked[3].score # SCORE_MAX
    /\ filtered = <<candidates[2], candidates[1], candidates[3]>>
    /\ candidates[1] # candidates[3]

---------------------------------------------------------------------------
(* C5 *)

---------------------------------------------------------------------------
(* C2 *)

\* C2: with enable_icon, the offsets returned for a candidate are those the
\* scorer gives for the text behind the icon, each moved by the number of
\* characters cut off the front, so that each offset is the index in the
\* candidate of the character matched.
C2_IconRoundTrip ==
    (pc = "returned" /\ enable_icon) =>
        \A x \in 1..Len(filtered) :
            LET c == filtered[x]
                k == Len(c) - Len(StripIcon(c))
                plain == fzy_scorer(query, StripIcon(c)).positions
            IN /\ indices[x] = [y \in 1..Len(plain) |-> plain[y] + k]
               /\ query # <<>> =>
                     \A y \in 1..Len(indices[x]) :
                         /\ indices[x][y] < Len(c)
                         /\ LowerChar(c[indices[x][y] + 1]) = LowerChar(query[y])

---------------------------------------------------------------------------
(* C3 *)

\* the offsets returned for text: one for each character of the query,
\* strictly increasing, each an index of text
ValidOffsets(ind, text) ==
    /\ Len(ind) = Len(query)
    /\ Increasing(ind)
    /\ \A y \in 1..Len(ind) : 0 <= ind[y] /\ ind[y] < Len(text)

\* C3: with a non-empty query, with or without enable_icon, the offsets of
\* every returned text are strictly increasing, as many as the query has
\* characters, and indexes of the text as the caller gave it.
C3_Offsets ==
    (pc = "returned" /\ query # <<>>) =>
        \A x \in 1..Len(filtered) : ValidOffsets(indices[x], filtered[x])

\* C3 without enable_icon, which the code keeps
C3_OffsetsWithoutIcon ==
    (pc = "returned" /\ query # <<>> /\ ~enable_icon) =>
        \A x \in 1..Len(filtered) : ValidOffsets(indices[x], filtered[x])

=============================================================================
